---- MODULE Spec2Model ----
(***************************************************************************)
(* Interview orchestration engine: the InterviewManager session state      *)
(* machine (backend/interview_manager.py), the evaluator client            *)
(* (backend/llm_engine.py) and the request handlers that drive a session   *)
(* on the asyncio event loop (backend/app.py).                             *)
(*                                                                         *)
(* A client is one request slot of the service.  A request is queued on    *)
(* the event loop ("ready"), picked up by the loop, and runs until it      *)
(* returns or raises.  The evaluator calls are the points where a handler  *)
(* waits on the outside world; the state between two of them is one step.  *)
(***************************************************************************)
EXTENDS Integers, Sequences, FiniteSets, TLC

(* ---- bounds ---- *)
NumClients == 2
MaxAnswers == 6
MaxEvaluations == 3
MaxQuestions == 3
MaxSubmits == 1

(* ---- program constants ---- *)
total_questions == 5
DefaultScore == 5
FallbackScoreNoJson == 7
FallbackScoreBadJson == 6

Sessions == {"s1"}
Clients == 1..NumClients
NoClient == 0
NoSession == "none"

VARIABLES
    interview_sessions,
    current_question_number,
    questions_asked,
    answers_given,
    scores,
    evaluations,
    interview_started,
    interview_ended,
    answer_saves,
    save_calls,
    pc,
    op,
    sid,
    current_question,
    response,
    running,
    first_called,
    all_ok,
    eval_qnum,
    data_storage,
    google_sheets

session_vars == <<current_question_number, questions_asked, answers_given,
                  scores, evaluations, interview_started, interview_ended>>
sink_vars == <<answer_saves, save_calls>>
client_vars == <<pc, op, sid, current_question>>
ghost_vars == <<first_called, all_ok, eval_qnum>>
config_vars == <<data_storage, google_sheets>>
vars == <<interview_sessions, session_vars, sink_vars, client_vars, response,
          running, ghost_vars, config_vars>>

(* ---- values ---- *)
Num(v) == [num |-> TRUE, val |-> v]
NonNumeric == [num |-> FALSE, val |-> 0]
IsNumber(x) == x.num

NoReport == << >>
Outcome(st, d) == [status |-> st, detail |-> d, report |-> NoReport]
NoResponse == [op |-> "none", sid |-> NoSession,
               status |-> "none", detail |-> "", report |-> NoReport]

(* ---- the evaluator (LLMEngine) ---- *)

(* What the generative API can answer to an evaluate_answer prompt: the    *)
(* call raises, the text holds no JSON object, the text between the first  *)
(* "{" and the last "}" is not valid JSON, or it is a JSON object, with or *)
(* without a "score" key, whose value is whatever the model wrote.         *)
JsonScores == {Num(8), NonNumeric}
EvalResponses ==
    {[kind |-> "error", has_score |-> FALSE, score |-> Num(0)],
     [kind |-> "text", has_score |-> FALSE, score |-> Num(0)]}
    \cup {[kind |-> "json", has_score |-> TRUE, score |-> v] : v \in JsonScores}

(* LLMEngine.evaluate_answer: the evaluation dict built from a response    *)
(* that did not raise.                                                     *)
evaluate_answer(resp) ==
    IF resp.kind = "json"
    THEN [has_score |-> resp.has_score, score |-> resp.score, source |-> "json"]
    ELSE IF resp.kind = "text"
    THEN [has_score |-> TRUE, score |-> Num(FallbackScoreNoJson), source |-> "fallback"]
    ELSE [has_score |-> TRUE, score |-> Num(FallbackScoreBadJson), source |-> "fallback"]

(* evaluation.get("score", 5) *)
GetScore(evaluation) ==
    IF evaluation.has_score THEN evaluation.score ELSE Num(DefaultScore)

(* LLMEngine.generate_question: the stripped response text, or a raise.    *)
QuestionTexts == {"Q"}
QuestionResponses == {[kind |-> "error", text |-> ""]}
    \cup {[kind |-> "text", text |-> t] : t \in QuestionTexts}

RECURSIVE Sum(_)
Sum(seq) == IF seq = << >> THEN 0 ELSE seq[1].val + Sum(Tail(seq))

AllNumbers(seq) == \A i \in 1..Len(seq) : IsNumber(seq[i])

(* sum(scores) / len(scores) if scores else 0, kept as the exact fraction  *)
(* <<numerator, denominator>>.                                             *)
Average(seq) == IF seq = << >> THEN <<0, 1>> ELSE <<Sum(seq), Len(seq)>>
RatEq(a, b) == a[1] * b[2] = b[1] * a[2]

(* int(average_score) for a non-negative average *)
IntOf(avg) == avg[1] \div avg[2]

(* The final-feedback response: a raise, unparseable text, or a JSON       *)
(* object with the keys the model chose to write.                          *)
JsonFeedbacks ==
    {[summary |-> "S", hire_recommendation |-> "yes"],
     [summary |-> "S", hire_recommendation |-> "yes", average_score |-> <<0, 1>>]}
FeedbackResponses == {[kind |-> "error", body |-> << >>], [kind |-> "text", body |-> << >>]}
    \cup {[kind |-> "json", body |-> b] : b \in JsonFeedbacks}

(* LLMEngine.generate_final_feedback: the feedback dict of a response that *)
(* did not raise.                                                          *)
generate_final_feedback(resp, all_scores) ==
    IF resp.kind = "json"
    THEN resp.body
    ELSE [overall_score |-> IntOf(Average(all_scores)),
          summary |-> "raw",
          hire_recommendation |-> "maybe"]

(* ---- the session (InterviewManager) ---- *)

Answers == {"A"}

(* Python list indexing: seq[i] raises IndexError unless -len <= i < len.  *)
IndexOk(i, n) == -n <= i /\ i < n
Position(i, n) == IF i >= 0 THEN i + 1 ELSE n + i + 1

StateGuardEndedOnly(s) ==
    IF interview_ended[s] THEN "Interview already ended" ELSE ""

StateGuardStartedOnly(s) ==
    IF ~interview_started[s] THEN "Interview not started" ELSE ""

(* process_answer, lines 115-119: the lifecycle guard; "" when it passes.  *)
StateGuard(s) ==
    IF ~interview_started[s] THEN "Interview not started"
    ELSE IF interview_ended[s] THEN "Interview already ended"
    ELSE ""

AppendToShared(lists, s, v) == [t \in DOMAIN lists |-> Append(lists[t], v)]

(* self.<list>.append(v): the lists are attributes of the instance, made   *)
(* new by __init__ for every session (lines 53-56).                        *)
AppendTo(lists, s, v) == [lists EXCEPT ![s] = Append(@, v)]

StoreAnswerDropped(s, a) == answers_given[s]

(* process_answer, line 122 *)
StoreAnswer(s, a) == Append(answers_given[s], a)

CurrentQuestionIndexByAnswers(s) == Len(answers_given[s])

CurrentQuestionIndexFirst(s) == 0

(* process_answer, line 125: the index of the question being answered.     *)
CurrentQuestionIndex(s) == current_question_number[s] - 1

ShouldEndStrict(s) == current_question_number[s] > total_questions

ShouldEndEarly(s) == current_question_number[s] >= total_questions - 1

(* process_answer, line 156 *)
ShouldEnd(s) == current_question_number[s] >= total_questions

(* _generate_final_report, lines 246-258: the report indexes answers,      *)
(* scores and evaluations by every question position.                      *)
Indexable(qs, as, ss, es) ==
    /\ Len(as) >= Len(qs)
    /\ Len(ss) >= Len(qs)
    /\ Len(es) >= Len(qs)

(* _generate_final_report, lines 212-219: answers_summary *)
SummaryIndexable(qs, as, ss) ==
    /\ Len(as) >= Len(qs)
    /\ Len(ss) >= Len(qs)

(* "" when _generate_final_report gets as far as the evaluator call; else  *)
(* the exception raised before it: IndexError by answers_summary, or       *)
(* TypeError by sum(all_scores) in generate_final_feedback, line 210.      *)
ReportPrelude(qs, as, ss) ==
    IF ~SummaryIndexable(qs, as, ss) THEN "IndexError"
    ELSE IF ~AllNumbers(ss) THEN "TypeError"
    ELSE ""

(* {..., **final_feedback}: the keys of the feedback dict come last and    *)
(* replace equal keys of the computed fields.                              *)
Merge(computed, feedback) ==
    [k \in (DOMAIN computed) \cup (DOMAIN feedback) |->
        IF k \in DOMAIN feedback THEN feedback[k] ELSE computed[k]]

(* _generate_final_report, lines 235-261 *)
BuildReport(s, feedback) ==
    Merge([session_id |-> s,
           total_questions |-> Len(questions_asked[s]),
           average_score |-> Average(scores[s]),
           individual_scores |-> scores[s],
           timestamp |-> "built",
           questions_and_answers |->
               [i \in 1..Len(questions_asked[s]) |->
                   [question_number |-> i,
                    question |-> questions_asked[s][i],
                    answer |-> answers_given[s][i],
                    score |-> scores[s][i],
                    feedback |-> evaluations[s][i].source]]],
          feedback)

(* ---- the sinks (data_storage.py) ---- *)

(* How the session was constructed, app.py lines 58-76 and 112-120: with a *)
(* LocalDataStorage or with None, and with a GoogleSheetsStorage that      *)
(* initialized or did not, or with None.  A sink that is there either      *)
(* works or raises when it is called.                                      *)
StorageSinks == {"absent", "works", "fails"}
ExportSinks == {"absent", "uninitialized", "works", "fails"}

BestEffortUnguarded(sink) ==
    IF sink \in {"absent", "uninitialized"} THEN "skipped"
    ELSE IF sink = "works" THEN "done"
    ELSE "raised"

(* "if self.<sink>: try: <call the sink> except Exception: log", lines     *)
(* 143-153 and 269-281: what a sink call comes to for the handler.         *)
BestEffort(sink) ==
    IF sink \in {"absent", "uninitialized"} THEN "skipped"
    ELSE IF sink = "works" THEN "done"
    ELSE "logged"

(* LocalDataStorage.save_interview_session, lines 70-76: the dict it is    *)
(* handed gets a timestamp if it has none; nothing else of it is written.  *)
save_interview_session(session_data) ==
    IF "timestamp" \in DOMAIN session_data
    THEN session_data
    ELSE Merge(session_data, [timestamp |-> "saved"])

(* The report dict as its holder reads it: "individual_scores" is the      *)
(* session's own scores list (line 245 stores the list, not a copy), the   *)
(* other values were built for the report.                                 *)
HeldReport(report) ==
    [report EXCEPT !.individual_scores = scores[report.session_id]]

(* ---- the event loop ---- *)

AwaitYieldsAlways == TRUE

(* Whether an await of an evaluator call gives the event loop back.  The   *)
(* evaluator methods are coroutines without a suspension point of their    *)
(* own: self.client.generate_content(prompt) is a plain blocking call, so  *)
(* the awaiting handler keeps the loop until it returns or raises.         *)
AwaitYields == FALSE

Hold(c) == IF AwaitYields THEN NoClient ELSE c

(* The handler of client c returns or raises: the response goes out and    *)
(* the loop is free.                                                       *)
Finish(c, res) ==
    /\ pc' = [pc EXCEPT ![c] = "idle"]
    /\ op' = [op EXCEPT ![c] = "none"]
    /\ sid' = [sid EXCEPT ![c] = NoSession]
    /\ current_question' = [current_question EXCEPT ![c] = 0]
    /\ response' = [op |-> op[c], sid |-> sid[c],
                    status |-> res.status, detail |-> res.detail,
                    report |-> res.report]
    /\ running' = NoClient

(* The handler of client c reaches an evaluator call; cq is the position   *)
(* of the question it is answering (process_answer's current_question; a   *)
(* started session has current_question_number >= 1, so it is also the     *)
(* question number the call began with), 0 in the other handlers.          *)
Await(c, label, cq) ==
    /\ pc' = [pc EXCEPT ![c] = label]
    /\ current_question' = [current_question EXCEPT ![c] = cq]
    /\ running' = Hold(c)
    /\ UNCHANGED <<op, sid, response>>

(* A process_answer call that passed the lifecycle guard fails.            *)
Failed(s) == all_ok' = [all_ok EXCEPT ![s] = FALSE]

(* The sessions as InterviewManager.__init__ leaves them, lines 39-60,     *)
(* registered under their ids as by the assignment at app.py line 121      *)
(* (start_interview as written raises before it gets there, see            *)
(* BeginStartInterview; the registry and the session are taken here with   *)
(* the session constructed and entered).                                   *)
InitSessions ==
    /\ interview_sessions = Sessions
    /\ current_question_number = [s \in Sessions |-> 0]
    /\ questions_asked = [s \in Sessions |-> << >>]
    /\ answers_given = [s \in Sessions |-> << >>]
    /\ scores = [s \in Sessions |-> << >>]
    /\ evaluations = [s \in Sessions |-> << >>]
    /\ interview_started = [s \in Sessions |-> FALSE]
    /\ interview_ended = [s \in Sessions |-> FALSE]
    /\ answer_saves = [s \in Sessions |-> 0]
    /\ save_calls = [s \in Sessions |-> 0]
    /\ pc = [c \in Clients |-> "idle"]
    /\ op = [c \in Clients |-> "none"]
    /\ sid = [c \in Clients |-> NoSession]
    /\ current_question = [c \in Clients |-> 0]
    /\ response = NoResponse
    /\ running = NoClient
    /\ first_called = [s \in Sessions |-> FALSE]
    /\ all_ok = [s \in Sessions |-> TRUE]
    /\ eval_qnum = [s \in Sessions |-> << >>]

(* The service as it runs by default: STORAGE_MODE "local" gives the       *)
(* sessions a LocalDataStorage, and without credentials the                *)
(* GoogleSheetsStorage stays uninitialized (app.py lines 58-76).           *)
Init ==
    /\ InitSessions
    /\ data_storage = "works"
    /\ google_sheets = "uninitialized"

(* A request arrives and its handler is scheduled on the event loop.       *)
Request(c, o, s) ==
    /\ pc[c] = "idle"
    /\ o = "first" => ~first_called[s]
    /\ o \in {"submit", "ws"} => Len(answers_given[s]) < MaxAnswers
    /\ pc' = [pc EXCEPT ![c] = "ready"]
    /\ op' = [op EXCEPT ![c] = o]
    /\ sid' = [sid EXCEPT ![c] = s]
    /\ first_called' = IF o = "first" THEN [first_called EXCEPT ![s] = TRUE]
                       ELSE first_called
    /\ UNCHANGED <<interview_sessions, session_vars, sink_vars, current_question,
                   response, running, all_ok, eval_qnum, config_vars>>

(* start_interview, line 124, up to the evaluator call of                  *)
(* generate_first_question.                                                *)
BeginFirst(c) ==
    /\ running = NoClient
    /\ pc[c] = "ready"
    /\ op[c] = "first"
    /\ Await(c, "gf_generate", 0)
    /\ UNCHANGED <<interview_sessions, session_vars, sink_vars, ghost_vars,
                   config_vars>>

(* generate_first_question, lines 78-96 *)
FirstQuestionReturns(c) ==
    LET s == sid[c] IN
    /\ pc[c] = "gf_generate"
    /\ running = Hold(c)
    /\ \E resp \in QuestionResponses :
        IF resp.kind = "error"
        THEN /\ Finish(c, Outcome("EvaluatorUnavailable", "generate_question"))
             /\ UNCHANGED session_vars
        ELSE /\ current_question_number' = [current_question_number EXCEPT ![s] = 1]
             /\ questions_asked' = AppendTo(questions_asked, s, resp.text)
             /\ interview_started' = [interview_started EXCEPT ![s] = TRUE]
             /\ Finish(c, Outcome("started", ""))
             /\ UNCHANGED <<answers_given, scores, evaluations, interview_ended>>
    /\ UNCHANGED <<interview_sessions, sink_vars, ghost_vars, config_vars>>

(* _generate_final_report, lines 210-232: up to the final-feedback call.   *)
FinalReportCall(c, s, qs, as, ss) ==
    IF ReportPrelude(qs, as, ss) # ""
    THEN Finish(c, Outcome(ReportPrelude(qs, as, ss), "_generate_final_report"))
    ELSE Await(c, "fr_feedback", current_question[c])

(* submit_answer, lines 151-158, and the WebSocket "answer" message, lines *)
(* 218-223, into process_answer, lines 114-132: up to the evaluator call.  *)
BeginProcessAnswer(c) ==
    LET s == sid[c] IN
    /\ running = NoClient
    /\ pc[c] = "ready"
    /\ op[c] \in {"submit", "ws"}
    /\ IF s \notin interview_sessions
       THEN /\ Finish(c, IF op[c] = "submit"
                         THEN Outcome("HTTPException", "No active interview session")
                         ELSE Outcome("ignored", ""))
            /\ UNCHANGED <<session_vars, all_ok>>
       ELSE IF StateGuard(s) # ""
       THEN /\ Finish(c, Outcome("ValueError", StateGuard(s)))
            /\ UNCHANGED <<session_vars, all_ok>>
       ELSE \E a \in Answers :
            /\ answers_given' = [answers_given EXCEPT ![s] = StoreAnswer(s, a)]
            /\ IF ~IndexOk(CurrentQuestionIndex(s), Len(questions_asked[s]))
               THEN /\ Finish(c, Outcome("IndexError", "process_answer"))
                    /\ Failed(s)
               ELSE /\ Await(c, "pa_evaluate",
                             Position(CurrentQuestionIndex(s), Len(questions_asked[s])))
                    /\ UNCHANGED all_ok
            /\ UNCHANGED <<current_question_number, questions_asked, scores,
                           evaluations, interview_started, interview_ended>>
    /\ UNCHANGED <<interview_sessions, sink_vars, first_called, eval_qnum,
                   config_vars>>

(* process_answer, lines 127-179: the evaluation comes back, is recorded   *)
(* and saved, and the session either ends and starts its final report or   *)
(* moves to the next question number and asks for that question.           *)
EvaluateReturns(c) ==
    LET s == sid[c] IN
    /\ pc[c] = "pa_evaluate"
    /\ running = Hold(c)
    /\ \E resp \in EvalResponses :
        IF resp.kind = "error"
        THEN /\ Finish(c, Outcome("EvaluatorUnavailable", "evaluate_answer"))
             /\ Failed(s)
             /\ UNCHANGED <<session_vars, sink_vars, eval_qnum>>
        ELSE LET evaluation == evaluate_answer(resp)
                 new_scores == Append(scores[s], GetScore(evaluation))
             IN
             /\ evaluations' = [evaluations EXCEPT ![s] = Append(@, evaluation)]
             /\ scores' = [scores EXCEPT ![s] = new_scores]
             /\ eval_qnum' = [eval_qnum EXCEPT ![s] = Append(@, current_question[c])]
             /\ answer_saves' = IF data_storage = "absent" THEN answer_saves
                                ELSE [answer_saves EXCEPT ![s] = @ + 1]
             /\ IF BestEffort(data_storage) = "raised"
                THEN /\ Finish(c, Outcome("SinkError", "save_answer"))
                     /\ Failed(s)
                     /\ UNCHANGED <<current_question_number, interview_ended>>
                ELSE IF ShouldEnd(s)
                THEN /\ interview_ended' = [interview_ended EXCEPT ![s] = TRUE]
                     /\ FinalReportCall(c, s, questions_asked[s], answers_given[s], new_scores)
                     /\ IF ReportPrelude(questions_asked[s], answers_given[s], new_scores) # ""
                        THEN Failed(s)
                        ELSE UNCHANGED all_ok
                     /\ UNCHANGED current_question_number
                ELSE /\ current_question_number' =
                            [current_question_number EXCEPT ![s] = @ + 1]
                     /\ Await(c, "pa_generate", current_question[c])
                     /\ UNCHANGED <<interview_ended, all_ok>>
             /\ UNCHANGED <<questions_asked, answers_given, interview_started,
                            save_calls>>
    /\ UNCHANGED <<interview_sessions, first_called, config_vars>>

(* process_answer, lines 181-206: the next question comes back.            *)
GenerateReturns(c) ==
    LET s == sid[c] IN
    /\ pc[c] = "pa_generate"
    /\ running = Hold(c)
    /\ \E resp \in QuestionResponses :
        IF resp.kind = "error"
        THEN /\ Finish(c, Outcome("EvaluatorUnavailable", "generate_question"))
             /\ Failed(s)
             /\ UNCHANGED questions_asked
        ELSE /\ questions_asked' = AppendTo(questions_asked, s, resp.text)
             /\ Finish(c, Outcome("next_question", ""))
             /\ UNCHANGED all_ok
    /\ UNCHANGED <<interview_sessions, current_question_number, answers_given,
                   scores, evaluations, interview_started, interview_ended,
                   sink_vars, first_called, eval_qnum, config_vars>>

(* end_interview, lines 178-183, into generate_final_report, lines         *)
(* 291-295, and _generate_final_report up to the final-feedback call.      *)
BeginEndInterview(c) ==
    LET s == sid[c] IN
    /\ running = NoClient
    /\ pc[c] = "ready"
    /\ op[c] = "end"
    /\ IF s \notin interview_sessions
       THEN /\ Finish(c, Outcome("HTTPException", "No active interview session"))
            /\ UNCHANGED interview_ended
       ELSE /\ interview_ended' = [interview_ended EXCEPT ![s] = TRUE]
            /\ FinalReportCall(c, s, questions_asked[s], answers_given[s], scores[s])
    /\ UNCHANGED <<interview_sessions, current_question_number, questions_asked,
                   answers_given, scores, evaluations, interview_started,
                   answer_saves, save_calls, ghost_vars, config_vars>>

(* _generate_final_report, lines 228-287, and the return of its caller:    *)
(* process_answer, lines 164-168, or end_interview, lines 185-190.         *)
FeedbackReturns(c) ==
    LET s == sid[c] IN
    /\ pc[c] = "fr_feedback"
    /\ running = Hold(c)
    /\ \E resp \in FeedbackResponses :
        IF resp.kind = "error"
        THEN /\ Finish(c, Outcome("EvaluatorUnavailable", "generate_final_feedback"))
             /\ IF op[c] = "end" THEN UNCHANGED all_ok ELSE Failed(s)
             /\ UNCHANGED <<interview_sessions, save_calls>>
        ELSE IF ~Indexable(questions_asked[s], answers_given[s], scores[s], evaluations[s])
        THEN /\ Finish(c, Outcome("IndexError", "_generate_final_report"))
             /\ IF op[c] = "end" THEN UNCHANGED all_ok ELSE Failed(s)
             /\ UNCHANGED <<interview_sessions, save_calls>>
        ELSE LET built == BuildReport(s, generate_final_feedback(resp, scores[s]))
                 report == IF data_storage = "absent" THEN built
                           ELSE save_interview_session(built)
                 sinks == {BestEffort(data_storage), BestEffort(google_sheets)}
             IN
             /\ save_calls' = IF data_storage = "absent" THEN save_calls
                              ELSE [save_calls EXCEPT ![s] = @ + 1]
             /\ IF "raised" \in sinks
                THEN /\ UNCHANGED interview_sessions
                     /\ Finish(c, Outcome("SinkError", "_generate_final_report"))
                     /\ IF op[c] = "end" THEN UNCHANGED all_ok ELSE Failed(s)
                ELSE IF op[c] = "end"
                THEN /\ interview_sessions' = interview_sessions \ {s}
                     /\ Finish(c, [status |-> "completed", detail |-> "",
                                   report |-> report])
                     /\ UNCHANGED all_ok
                ELSE /\ UNCHANGED interview_sessions
                     /\ Finish(c, [status |-> "interview_complete", detail |-> "",
                                   report |-> report])
                     /\ UNCHANGED all_ok
    /\ UNCHANGED <<session_vars, answer_saves, first_called, eval_qnum,
                   config_vars>>

Next ==
    \/ \E c \in Clients, o \in {"first", "submit", "ws", "end"}, s \in Sessions :
           Request(c, o, s)
    \/ \E c \in Clients : BeginFirst(c)
    \/ \E c \in Clients : FirstQuestionReturns(c)
    \/ \E c \in Clients : BeginProcessAnswer(c)
    \/ \E c \in Clients : EvaluateReturns(c)
    \/ \E c \in Clients : GenerateReturns(c)
    \/ \E c \in Clients : BeginEndInterview(c)
    \/ \E c \in Clients : FeedbackReturns(c)

Spec == Init /\ [][Next]_vars

TypeOK ==
    /\ interview_sessions \subseteq Sessions
    /\ running \in Clients \cup {NoClient}
    /\ \A s \in Sessions : Len(scores[s]) = Len(evaluations[s])

(* ---- evaluate_answer on every shape of response ---- *)

(* Every shape of text the generative API can return to evaluate_answer:   *)
(* no JSON object in it, a "{...}" span that json.loads rejects, or a JSON *)
(* object, without a "score" key or with one whose value is in range, out  *)
(* of range or not a number.                                               *)
AllJsonScores == {Num(8), Num(11), Num(-1), NonNumeric}
ParsedResponses ==
    {[kind |-> "text", has_score |-> FALSE, score |-> Num(0)],
     [kind |-> "badjson", has_score |-> FALSE, score |-> Num(0)],
     [kind |-> "json", has_score |-> FALSE, score |-> Num(0)]}
    \cup {[kind |-> "json", has_score |-> TRUE, score |-> v] : v \in AllJsonScores}

(* process_answer, lines 127-136: the evaluation of one answer is obtained *)
(* and recorded with its score.                                            *)
RecordEvaluation(s, resp) ==
    /\ Len(scores[s]) < MaxEvaluations
    /\ evaluations' = [evaluations EXCEPT ![s] = Append(@, evaluate_answer(resp))]
    /\ scores' = [scores EXCEPT ![s] = Append(@, GetScore(evaluate_answer(resp)))]
    /\ UNCHANGED <<interview_sessions, current_question_number, questions_asked,
                   answers_given, interview_started, interview_ended, sink_vars,
                   client_vars, response, running, ghost_vars, config_vars>>

EvalNext == \E s \in Sessions, resp \in ParsedResponses : RecordEvaluation(s, resp)

EvalSpec == Init /\ [][EvalNext]_vars

(* ---- the session driven method by method ---- *)

(* A caller holding a registered InterviewManager awaits its public        *)
(* methods in any order: generate_first_question (at any time, the method  *)
(* has no guard), process_answer and generate_final_report.                *)
DirectRequest(c, o, s) ==
    /\ pc[c] = "idle"
    /\ o = "first" => Len(questions_asked[s]) < MaxQuestions
    /\ o = "submit" => Len(answers_given[s]) < MaxQuestions
    /\ pc' = [pc EXCEPT ![c] = "ready"]
    /\ op' = [op EXCEPT ![c] = o]
    /\ sid' = [sid EXCEPT ![c] = s]
    /\ first_called' = IF o = "first" THEN [first_called EXCEPT ![s] = TRUE]
                       ELSE first_called
    /\ UNCHANGED <<interview_sessions, session_vars, sink_vars, current_question,
                   response, running, all_ok, eval_qnum, config_vars>>

(* get_state, lines 297-309: the dict it returns when sum(self.scores)      *)
(* does not raise; average_score and progress as exact fractions.          *)
get_state(s) ==
    [session_id |-> s,
     interview_started |-> interview_started[s],
     interview_ended |-> interview_ended[s],
     current_question_number |-> current_question_number[s],
     total_questions |-> total_questions,
     questions_asked |-> Len(questions_asked[s]),
     answers_given |-> Len(answers_given[s]),
     average_score |-> Average(scores[s]),
     progress |-> <<current_question_number[s], total_questions>>]

(* The caller reads the state of session s.  get_state is a plain method:  *)
(* it runs to its end whenever the caller has the loop.  sum() raises      *)
(* TypeError on a score that is not a number.                              *)
GetState(s) ==
    /\ running = NoClient
    /\ response' =
           IF AllNumbers(scores[s])
           THEN [op |-> "state", sid |-> s, status |-> "ok", detail |-> "",
                 report |-> NoReport, state |-> get_state(s)]
           ELSE [op |-> "state", sid |-> s, status |-> "TypeError",
                 detail |-> "get_state", report |-> NoReport, state |-> << >>]
    /\ UNCHANGED <<interview_sessions, session_vars, sink_vars, client_vars,
                   running, ghost_vars, config_vars>>

ApiNext ==
    \/ \E o \in {"first", "submit", "end"}, s \in Sessions : DirectRequest(1, o, s)
    \/ \E s \in Sessions : GetState(s)
    \/ BeginFirst(1)
    \/ FirstQuestionReturns(1)
    \/ BeginProcessAnswer(1)
    \/ EvaluateReturns(1)
    \/ GenerateReturns(1)
    \/ BeginEndInterview(1)
    \/ FeedbackReturns(1)

ApiSpec == Init /\ [][ApiNext]_vars

(* ---- the session under every configuration of its sinks ---- *)

SinkInit ==
    /\ InitSessions
    /\ data_storage \in StorageSinks
    /\ google_sheets \in ExportSinks

SinkNext ==
    \/ \E o \in {"first", "submit", "end"}, s \in Sessions : Request(1, o, s)
    \/ BeginFirst(1)
    \/ FirstQuestionReturns(1)
    \/ BeginProcessAnswer(1)
    \/ EvaluateReturns(1)
    \/ GenerateReturns(1)
    \/ BeginEndInterview(1)
    \/ FeedbackReturns(1)

SinkSpec == SinkInit /\ [][SinkNext]_vars

(* ---- the session answered until it completes ---- *)

(* The first question is asked for and answers keep being submitted;       *)
(* end_interview is never called.  Every handler that is scheduled gets    *)
(* the loop, every evaluator call returns or raises, and the candidate     *)
(* goes on submitting: no step that can be taken is put off for ever.      *)
AnswerNext ==
    \/ \E o \in {"first", "submit"}, s \in Sessions : Request(1, o, s)
    \/ BeginFirst(1)
    \/ FirstQuestionReturns(1)
    \/ BeginProcessAnswer(1)
    \/ EvaluateReturns(1)
    \/ GenerateReturns(1)
    \/ FeedbackReturns(1)

AnswerSpec == Init /\ [][AnswerNext]_vars /\ WF_vars(AnswerNext)

(* ---- the texts that come in: questions and answers ---- *)

(* A text is the sequence of its characters.  What the generative API can  *)
(* return as response.text to a generate_question prompt: a question, a    *)
(* question with white space around it, nothing, or white space only.      *)
Whitespace == {" ", "\n"}
RawQuestionTexts ==
    {<<"Q">>, <<" ", "Q", "\n">>, <<"Q", " ", "Q">>, << >>, <<" ", "\n">>}

RECURSIVE StripLeft(_)
StripLeft(text) ==
    IF text # << >> /\ Head(text) \in Whitespace
    THEN StripLeft(Tail(text))
    ELSE text

RECURSIVE StripRight(_)
StripRight(text) ==
    IF text # << >> /\ text[Len(text)] \in Whitespace
    THEN StripRight(SubSeq(text, 1, Len(text) - 1))
    ELSE text

(* str.strip() *)
Strip(text) == StripRight(StripLeft(text))

(* LLMEngine.generate_question, lines 98-102, when the call does not       *)
(* raise: the response text, stripped, is returned as it is.               *)
generate_question(raw) == Strip(raw)

(* generate_first_question, lines 78-92, with the response text raw.       *)
FirstQuestionFrom(s, raw) ==
    /\ Len(questions_asked[s]) < MaxQuestions
    /\ current_question_number' = [current_question_number EXCEPT ![s] = 1]
    /\ questions_asked' = AppendTo(questions_asked, s, generate_question(raw))
    /\ interview_started' = [interview_started EXCEPT ![s] = TRUE]
    /\ first_called' = [first_called EXCEPT ![s] = TRUE]
    /\ response' = [op |-> "first", sid |-> s, status |-> "started",
                    detail |-> "", report |-> NoReport]
    /\ UNCHANGED <<interview_sessions, answers_given, scores, evaluations,
                   interview_ended, sink_vars, client_vars, running, all_ok,
                   eval_qnum, config_vars>>

(* The "answer" of an inbound message: the key is missing (message.get     *)
(* gives None), or it holds a text, empty or not.                          *)
NoneValue == [null |-> TRUE, text |-> << >>]
Text(t) == [null |-> FALSE, text |-> t]
AnswerValues == {NoneValue, Text(<< >>), Text(<<"A">>)}
IsEmptyAnswer(a) == a.null \/ a.text = << >>

(* SubmitAnswerPayload, app.py lines 36-38: answer is a required str with  *)
(* min_length=1.  A WebSocket message is json.loads output, read with      *)
(* message.get("answer") and handed on as it is, lines 218-223.            *)
Validates(path, a) ==
    IF path = "submit" THEN ~a.null /\ Len(a.text) >= 1 ELSE TRUE

(* An answer arrives by the HTTP route or by a WebSocket message and goes  *)
(* through validation into process_answer, lines 115-122, where it is      *)
(* stored.                                                                 *)
ReceiveAnswer(path, s, a) ==
    /\ Len(answers_given[s]) < MaxSubmits
    /\ IF ~Validates(path, a)
       THEN /\ response' = [op |-> path, sid |-> s, status |-> "ValidationError",
                            detail |-> "answer", report |-> NoReport]
            /\ UNCHANGED answers_given
       ELSE IF StateGuard(s) # ""
       THEN /\ response' = [op |-> path, sid |-> s, status |-> "ValueError",
                            detail |-> StateGuard(s), report |-> NoReport]
            /\ UNCHANGED answers_given
       ELSE /\ answers_given' = [answers_given EXCEPT ![s] = StoreAnswer(s, a)]
            /\ response' = [op |-> path, sid |-> s, status |-> "stored",
                            detail |-> "", report |-> NoReport]
    /\ UNCHANGED <<interview_sessions, current_question_number, questions_asked,
                   scores, evaluations, interview_started, interview_ended,
                   sink_vars, client_vars, running, ghost_vars, config_vars>>

InputNext ==
    \/ \E s \in Sessions, raw \in RawQuestionTexts : FirstQuestionFrom(s, raw)
    \/ \E path \in {"submit", "ws"}, s \in Sessions, a \in AnswerValues :
           ReceiveAnswer(path, s, a)

InputSpec == Init /\ [][InputNext]_vars

(* ---- the registry with several sessions ---- *)

SessionIds == {"s1", "s2"}

(* The parameters InterviewManager.__init__ declares, and the keyword      *)
(* arguments start_interview passes to it.                                 *)
InitParameters ==
    {"llm_engine", "job_description", "candidate_name", "experience_years",
     "difficulty", "data_storage", "google_sheets"}
StartInterviewArguments ==
    {"llm_engine", "job_description", "candidate_name", "experience_years",
     "difficulty", "data_storage", "google_sheets", "google_sheet_name"}

ConstructorAcceptsAny(arguments) == TRUE

(* A Python call binds its keyword arguments to declared parameters; one   *)
(* that names no parameter raises TypeError (__init__ takes no **kwargs).  *)
ConstructorAccepts(arguments) == arguments \subseteq InitParameters

(* Two sessions as InterviewManager.__init__ leaves them, registered under *)
(* their ids.                                                              *)
RegistryInit ==
    /\ interview_sessions = SessionIds
    /\ current_question_number = [s \in SessionIds |-> 0]
    /\ questions_asked = [s \in SessionIds |-> << >>]
    /\ answers_given = [s \in SessionIds |-> << >>]
    /\ scores = [s \in SessionIds |-> << >>]
    /\ evaluations = [s \in SessionIds |-> << >>]
    /\ interview_started = [s \in SessionIds |-> FALSE]
    /\ interview_ended = [s \in SessionIds |-> FALSE]
    /\ answer_saves = [s \in SessionIds |-> 0]
    /\ save_calls = [s \in SessionIds |-> 0]
    /\ pc = [c \in Clients |-> "idle"]
    /\ op = [c \in Clients |-> "none"]
    /\ sid = [c \in Clients |-> NoSession]
    /\ current_question = [c \in Clients |-> 0]
    /\ response = NoResponse
    /\ running = NoClient
    /\ first_called = [s \in SessionIds |-> FALSE]
    /\ all_ok = [s \in SessionIds |-> TRUE]
    /\ eval_qnum = [s \in SessionIds |-> << >>]
    /\ data_storage = "works"
    /\ google_sheets = "uninitialized"

(* The request slots of this specification.                                *)
RegistryClients == {1, 2}

(* A request arrives: start-interview (which names no session), or the     *)
(* first question, an answer or end-interview for session s.  Requests     *)
(* arrive one at a time, while no earlier one still waits for the loop,    *)
(* and take the lowest free slot, the slots being alike.  The response of  *)
(* the last handler has gone out by then.                                  *)
RegistryRequest(c, o, s) ==
    /\ pc[c] = "idle"
    /\ \A d \in RegistryClients : pc[d] # "ready" /\ (d < c => pc[d] # "idle")
    /\ IF o = "start" THEN s = NoSession ELSE s \in SessionIds
    /\ o = "first" => ~first_called[s]
    /\ o = "submit" => Len(answers_given[s]) < MaxSubmits
    /\ pc' = [pc EXCEPT ![c] = "ready"]
    /\ op' = [op EXCEPT ![c] = o]
    /\ sid' = [sid EXCEPT ![c] = s]
    /\ first_called' = IF o = "first" THEN [first_called EXCEPT ![s] = TRUE]
                       ELSE first_called
    /\ response' = NoResponse
    /\ UNCHANGED <<interview_sessions, session_vars, sink_vars, current_question,
                   running, all_ok, eval_qnum, config_vars>>

(* start_interview, lines 104-124 and 134-136: the InterviewManager is     *)
(* constructed, registered under the id its constructor drew               *)
(* (uuid4()[:8], line 40; the assignment at line 121 replaces an entry     *)
(* already under that id), and its first question is awaited.              *)
BeginStartInterview(c) ==
    /\ running = NoClient
    /\ pc[c] = "ready"
    /\ op[c] = "start"
    /\ IF ~ConstructorAccepts(StartInterviewArguments)
       THEN /\ Finish(c, Outcome("HTTPException", "TypeError"))
            /\ UNCHANGED <<interview_sessions, session_vars, first_called, all_ok,
                           eval_qnum>>
       ELSE \E id \in SessionIds :
            /\ interview_sessions' = interview_sessions \cup {id}
            /\ current_question_number' = [current_question_number EXCEPT ![id] = 0]
            /\ questions_asked' = [questions_asked EXCEPT ![id] = << >>]
            /\ answers_given' = [answers_given EXCEPT ![id] = << >>]
            /\ scores' = [scores EXCEPT ![id] = << >>]
            /\ evaluations' = [evaluations EXCEPT ![id] = << >>]
            /\ interview_started' = [interview_started EXCEPT ![id] = FALSE]
            /\ interview_ended' = [interview_ended EXCEPT ![id] = FALSE]
            /\ first_called' = [first_called EXCEPT ![id] = TRUE]
            /\ all_ok' = [all_ok EXCEPT ![id] = TRUE]
            /\ eval_qnum' = [eval_qnum EXCEPT ![id] = << >>]
            /\ pc' = [pc EXCEPT ![c] = "gf_generate"]
            /\ sid' = [sid EXCEPT ![c] = id]
            /\ running' = Hold(c)
            /\ UNCHANGED <<op, current_question, response>>
    /\ UNCHANGED <<sink_vars, config_vars>>

RegistryNext ==
    \/ \E c \in RegistryClients, o \in {"start", "first", "submit", "end"},
          s \in SessionIds \cup {NoSession} : RegistryRequest(c, o, s)
    \/ \E c \in RegistryClients : BeginStartInterview(c)
    \/ \E c \in RegistryClients : BeginFirst(c)
    \/ \E c \in RegistryClients : FirstQuestionReturns(c)
    \/ \E c \in RegistryClients : BeginProcessAnswer(c)
    \/ \E c \in RegistryClients : EvaluateReturns(c)
    \/ \E c \in RegistryClients : GenerateReturns(c)
    \/ \E c \in RegistryClients : BeginEndInterview(c)
    \/ \E c \in RegistryClients : FeedbackReturns(c)

RegistrySpec == RegistryInit /\ [][RegistryNext]_vars

(* ---- properties ---- *)

Success == {"next_question", "interview_complete"}
InFlight(c) == pc[c] \notin {"idle", "ready"}
Quiet(s) == \A c \in Clients : InFlight(c) => sid[c] # s

(* The last response is that of a process_answer call on s that returned,  *)
(* and no handler has touched s since.                                     *)
AfterSubmit(s) ==
    /\ response.sid = s
    /\ response.op \in {"submit", "ws"}
    /\ response.status \in Success
    /\ Quiet(s)

(* The handler of client c returns or raises in this step.                 *)
Completes(c) == pc[c] # "idle" /\ pc'[c] = "idle"

(* C1, as stated: after each call of a sequence of successful              *)
(* process_answer calls, questions_asked, answers_given and scores have    *)
(* the same length.                                                        *)
C1_AllThreeEqualAfterEachCall ==
    \A s \in Sessions :
        (AfterSubmit(s) /\ all_ok[s]) =>
            /\ Len(questions_asked[s]) = Len(answers_given[s])
            /\ Len(answers_given[s]) = Len(scores[s])

(* C1, amended: after each call of a sequence of successful process_answer *)
(* calls, answers_given, scores and evaluations have the same length;      *)
(* questions_asked has that length after the call that completes the       *)
(* interview and is one longer after a call that returns the next          *)
(* question.                                                               *)
C1_AnswersScoresEqualAfterEachCall ==
    \A s \in Sessions :
        (AfterSubmit(s) /\ all_ok[s]) =>
            /\ Len(answers_given[s]) = Len(scores[s])
            /\ Len(scores[s]) = Len(evaluations[s])
            /\ response.status = "next_question" =>
                   Len(questions_asked[s]) = Len(answers_given[s]) + 1
            /\ response.status = "interview_complete" =>
                   Len(questions_asked[s]) = Len(answers_given[s])

C1_Witness ==
    \E s \in Sessions :
        /\ AfterSubmit(s)
        /\ all_ok[s]
        /\ response.status = "next_question"
        /\ Len(answers_given[s]) = 2

(* C2: in every reachable state, also while an evaluator call is pending   *)
(* and after one has failed, 0 <= current_question_number <=               *)
(* total_questions and current_question_number = len(questions_asked).     *)
C2_QuestionNumberCountsQuestions ==
    \A s \in Sessions :
        /\ 0 <= current_question_number[s]
        /\ current_question_number[s] <= total_questions
        /\ current_question_number[s] = Len(questions_asked[s])

(* C3: process_answer on a registered session that was never started or    *)
(* has ended raises the invalid-state error and changes no session field.  *)
C3_InvalidStateRejected ==
    [][\A c \in Clients :
          (/\ pc[c] = "ready"
           /\ pc'[c] # "ready"
           /\ op[c] \in {"submit", "ws"}
           /\ sid[c] \in interview_sessions
           /\ (~interview_started[sid[c]] \/ interview_ended[sid[c]]))
          => (/\ pc'[c] = "idle"
              /\ response'.status = "ValueError"
              /\ UNCHANGED session_vars)]_vars

C3_Witness ==
    /\ response.status = "ValueError"
    /\ response.detail = "Interview already ended"
    /\ \E s \in Sessions : response.sid = s /\ interview_started[s] /\ interview_ended[s]

(* C4: no two handlers are in flight on the same session at once, and no   *)
(* two submissions are evaluated against the same question.                *)
C4_OneOperationInFlight ==
    /\ \A c1, c2 \in Clients :
           (c1 # c2 /\ InFlight(c1) /\ InFlight(c2)) => sid[c1] # sid[c2]
    /\ \A s \in Sessions : \A i, j \in 1..Len(eval_qnum[s]) :
           i < j => eval_qnum[s][i] < eval_qnum[s][j]

C4_Witness ==
    \E c1, c2 \in Clients :
        /\ c1 # c2
        /\ pc[c1] = "pa_evaluate"
        /\ pc[c2] = "ready"
        /\ op[c2] \in {"submit", "ws", "end"}
        /\ sid[c2] = sid[c1]
        /\ Len(eval_qnum[sid[c1]]) >= 1

C6_ReportPersistedOnce ==
    \A s \in Sessions : save_calls[s] <= 1

(* C7: end_interview on a session in progress, whose last issued question  *)
(* is not answered yet, returns a report (unless the evaluator fails).     *)
C7_EndInProgressReturnsReport ==
    \A s \in Sessions :
        (/\ response.op = "end"
         /\ response.sid = s
         /\ response.status # "HTTPException"
         /\ Quiet(s)
         /\ interview_started[s]
         /\ Len(questions_asked[s]) = Len(answers_given[s]) + 1
         /\ Len(answers_given[s]) = Len(scores[s]))
        => response.status \in {"completed", "EvaluatorUnavailable"}

(* The last response is the failure of the evaluator call named by detail  *)
(* inside a process_answer call on s.                                      *)
EvaluatorFailedIn(s, details) ==
    /\ response.sid = s
    /\ response.op \in {"submit", "ws"}
    /\ response.status = "EvaluatorUnavailable"
    /\ response.detail \in details

(* The handler of client c is a process_answer call on s that ran right    *)
(* after such a failure, and it returns or raises in this step.            *)
RetryCompletes(c, s, details) ==
    /\ Completes(c)
    /\ op[c] \in {"submit", "ws"}
    /\ sid[c] = s
    /\ EvaluatorFailedIn(s, details)

(* C8: when evaluate_answer fails, the call fails with the answer appended *)
(* and no score or evaluation appended; the resubmitted call, with an      *)
(* evaluator that answers and scores with numbers, succeeds.               *)
C8_ScoringFailureCanBeRetried ==
    [][\A c \in Clients : LET s == sid[c] IN
          /\ (pc[c] = "ready" /\ pc'[c] = "pa_evaluate") =>
                 answers_given'[s] = Append(answers_given[s], "A")
          /\ (pc[c] = "pa_evaluate" /\ Completes(c)
              /\ response'.status = "EvaluatorUnavailable") =>
                 /\ UNCHANGED session_vars
                 /\ Len(answers_given'[s]) > Len(scores'[s])
          /\ (RetryCompletes(c, s, {"evaluate_answer"}) /\ AllNumbers(scores'[s])) =>
                 response'.status \in Success \cup {"EvaluatorUnavailable"}]_vars

C8_Witness ==
    \E s \in Sessions :
        /\ AfterSubmit(s)
        /\ Len(answers_given[s]) > Len(scores[s])
        /\ Len(scores[s]) >= 1

(* C9: after any evaluator call inside process_answer has failed, the      *)
(* next-question generation included, the repeated call is accepted and    *)
(* succeeds (with an evaluator that answers and scores with numbers).      *)
C9_AnyEvaluatorFailureCanBeRetried ==
    [][\A c \in Clients : LET s == sid[c] IN
          (RetryCompletes(c, s, {"evaluate_answer", "generate_question"})
           /\ AllNumbers(scores'[s])) =>
              response'.status \in Success \cup {"EvaluatorUnavailable"}]_vars

(* C10: the report's average_score is the arithmetic mean of the recorded  *)
(* scores, whatever the final-feedback payload holds.                      *)
C10_AverageIsMeanOfScores ==
    response.status \in {"completed", "interview_complete"} =>
        RatEq(response.report.average_score, Average(scores[response.sid]))

(* The hire-recommendation tier of an average <<numerator, denominator>>,  *)
(* by the threshold table (inclusive lower bounds).                        *)
Tier(avg) ==
    IF avg[1] >= 7 * avg[2] THEN "strong yes"
    ELSE IF avg[1] >= 6 * avg[2] THEN "yes"
    ELSE IF avg[1] >= 5 * avg[2] THEN "maybe"
    ELSE "no"

(* C11: the report's hire_recommendation is the tier of the average of the *)
(* scores it reports: >= 7 "strong yes", >= 6 "yes", >= 5 "maybe", else    *)
(* "no" (no scores: "no").                                                 *)
C11_HireRecommendationFollowsAverage ==
    response.status \in {"completed", "interview_complete"} =>
        response.report.hire_recommendation =
            Tier(Average(response.report.individual_scores))

(* The fields of session s. *)
SessionFields(s) ==
    <<current_question_number[s], questions_asked[s], answers_given[s],
      scores[s], evaluations[s], interview_started[s], interview_ended[s]>>

(* C13: started and ended never revert and ended is set only on a started  *)
(* session; a step on a session that has ended changes none of its fields  *)
(* and hands out no report, and a step on a session that has not started   *)
(* changes nothing unless it is the first question starting it.            *)
C13_StartedOnceEndedOnce ==
    [][\A s \in Sessions :
          /\ interview_started[s] => interview_started'[s]
          /\ interview_ended[s] => interview_ended'[s]
          /\ interview_ended[s] =>
                 /\ SessionFields(s)' = SessionFields(s)
                 /\ \A c \in Clients :
                        (Completes(c) /\ sid[c] = s) => response'.report = NoReport
          /\ (~interview_started[s] /\ ~interview_ended[s]) =>
                 /\ ~interview_ended'[s]
                 /\ SessionFields(s)' = SessionFields(s) \/ interview_started'[s]]_vars

(* C18: once end_interview has returned or raised for a session id, report *)
(* generation failed or not, the id is no longer in the registry (for an   *)
(* id that was absent the call changes nothing, so it still is absent).    *)
C18_EndRemovesSession ==
    response.op = "end" => response.sid \notin interview_sessions

(* C12: the evaluations built from unparseable responses (no JSON object,  *)
(* or malformed JSON) all carry one and the same default score, and that   *)
(* score is the one recorded in scores.                                    *)
C12_OneDefaultScore ==
    \A s \in Sessions : \A i, j \in 1..Len(evaluations[s]) :
        (evaluations[s][i].source = "fallback" /\ evaluations[s][j].source = "fallback")
        => (/\ scores[s][i] = evaluations[s][i].score
            /\ scores[s][i] = scores[s][j])

(* C16: every recorded score is a number from 0 to 10.                     *)
C16_ScoresInRange ==
    \A s \in Sessions : \A i \in 1..Len(scores[s]) :
        /\ IsNumber(scores[s][i])
        /\ 0 <= scores[s][i].val
        /\ scores[s][i].val <= 10

(* C15: a call of generate_first_question on a session that is not in      *)
(* Created (already started, or ended) fails and changes no field of the   *)
(* session; a call during which the evaluator fails raises that failure    *)
(* and leaves the session as it was.                                       *)
C15_FirstQuestionOnlyInCreated ==
    [][\A c \in Clients, s \in Sessions :
          (pc[c] = "gf_generate" /\ Completes(c) /\ sid[c] = s) =>
              /\ (interview_started[s] \/ interview_ended[s]) =>
                     /\ response'.status # "started"
                     /\ SessionFields(s)' = SessionFields(s)
              /\ response'.status # "started" =>
                     /\ response'.status = "EvaluatorUnavailable"
                     /\ SessionFields(s)' = SessionFields(s)]_vars

(* C14: start_interview, the evaluator answering, returns "started" with   *)
(* the id of a registered session that is in progress with exactly one     *)
(* question, question number 1 and no answers.                             *)
C14_StartInterviewSucceeds ==
    [][\A c \in Clients :
          (op[c] = "start" /\ Completes(c)
           /\ response'.status # "EvaluatorUnavailable")
          => (/\ response'.status = "started"
              /\ response'.sid \in interview_sessions'
              /\ \A s \in SessionIds : response'.sid = s =>
                     /\ interview_started'[s]
                     /\ ~interview_ended'[s]
                     /\ current_question_number'[s] = 1
                     /\ Len(questions_asked'[s]) = 1
                     /\ answers_given'[s] = << >>)]_vars

(* C17: the registration step of start_interview puts the new session      *)
(* under an id that was not in the registry and leaves every entry that    *)
(* was there, and its session, as they were.                               *)
C17_CreateInsertsFreshId ==
    [][\A c \in Clients :
          (op[c] = "start" /\ pc[c] = "ready" /\ pc'[c] # "ready")
          => \E id \in SessionIds \ interview_sessions :
                 /\ interview_sessions' = interview_sessions \cup {id}
                 /\ \A s \in interview_sessions :
                        SessionFields(s)' = SessionFields(s)]_vars

(* The handler of the waiting request of client c starts to run.           *)
Begin(c) ==
    \/ BeginStartInterview(c)
    \/ BeginFirst(c)
    \/ BeginProcessAnswer(c)
    \/ BeginEndInterview(c)

(* C19: while the handler of one session waits for an evaluator call, the  *)
(* handler of a waiting request that is not for that session (a request    *)
(* for another session, or start-interview) can start.                     *)
C19_OtherSessionsProceed ==
    \A c1, c2 \in Clients :
        (InFlight(c1) /\ pc[c2] = "ready" /\ sid[c2] # sid[c1]) => ENABLED Begin(c2)

(* C20: a step of a request on one session (first question, answer, end,   *)
(* with requests on other sessions in between) leaves the questions,       *)
(* answers, scores, evaluations, question number and flags of every other  *)
(* session as they were.                                                   *)
C20_OtherSessionsUnchanged ==
    [][\A c \in Clients, s \in SessionIds :
          (pc'[c] # pc[c] /\ sid[c] # s /\ ~(op[c] = "start" /\ sid'[c] = s))
          => SessionFields(s)' = SessionFields(s)]_vars

C20_Witness ==
    /\ response.op = "submit"
    /\ response.sid = "s2"
    /\ response.status = "next_question"
    /\ Len(questions_asked["s2"]) = 2
    /\ Len(scores["s1"]) = 1
    /\ Len(questions_asked["s1"]) = 1
    /\ \E c \in Clients : pc[c] = "ready" /\ sid[c] = "s1" /\ op[c] = "end"

(* C21: whichever sink fails or is missing (the save of an answer, the     *)
(* save of the report, the export), no process_answer or end_interview     *)
(* call fails because of it, and a report that is returned is the report   *)
(* as it was built from the session and the final feedback.                *)
C21_SinkFailureNeverFailsTheCall ==
    [][\A c \in Clients :
          Completes(c) =>
              /\ response'.status # "SinkError"
              /\ response'.report # NoReport =>
                     \E r \in FeedbackResponses :
                         /\ r.kind # "error"
                         /\ response'.report =
                                BuildReport(sid[c],
                                    generate_final_feedback(r, scores[sid[c]]))]_vars

C21_Witness ==
    /\ data_storage = "fails"
    /\ google_sheets = "fails"
    /\ response.status = "interview_complete"
    /\ response.report # NoReport
    /\ \E s \in Sessions : response.sid = s /\ answer_saves[s] = total_questions

(* C22: get_state succeeds in every state of the session, changes no       *)
(* session field and no registry entry, and what it returns agrees with    *)
(* the session: questions_asked and answers_given are the lengths of the   *)
(* lists, and progress is current_question_number / total_questions,       *)
(* between 0 and 1.                                                        *)
C22_GetStateSucceedsAndAgrees ==
    [][(response'.op = "state" /\ response' # response) =>
          /\ response'.status = "ok"
          /\ UNCHANGED <<interview_sessions, session_vars>>
          /\ LET s == response'.sid
                 st == response'.state
             IN /\ st.questions_asked = Len(questions_asked[s])
                /\ st.answers_given = Len(answers_given[s])
                /\ st.progress = <<current_question_number[s], total_questions>>
                /\ 0 <= st.progress[1]
                /\ st.progress[1] <= st.progress[2]]_vars

(* C23: no question that is empty after trimming is appended to the        *)
(* session (question generation fails instead of returning one).           *)
C23_NoEmptyQuestion ==
    \A s \in Sessions : \A i \in 1..Len(questions_asked[s]) :
        Strip(questions_asked[s][i]) # << >>

(* C24: an empty or missing answer is rejected with a validation error and *)
(* never recorded, by the HTTP route and by the WebSocket message alike.   *)
C24_EmptyAnswerNeverRecorded ==
    /\ \A s \in Sessions : \A i \in 1..Len(answers_given[s]) :
           ~IsEmptyAnswer(answers_given[s][i])
    /\ response.status = "stored" =>
           ~IsEmptyAnswer(answers_given[response.sid][Len(answers_given[response.sid])])

(* C25: once a process_answer call has recorded and scored its answer,     *)
(* questions_asked, answers_given, scores and evaluations have the same    *)
(* length; and whenever no handler is in flight on the session,            *)
(* answers_given, scores and evaluations have the same length.             *)
C25_ListsGrowInLockStep ==
    \A s \in Sessions :
        /\ \A c \in Clients :
               (pc[c] = "pa_generate" /\ sid[c] = s) =>
                   /\ Len(questions_asked[s]) = Len(answers_given[s])
                   /\ Len(answers_given[s]) = Len(scores[s])
                   /\ Len(scores[s]) = Len(evaluations[s])
        /\ Quiet(s) =>
               /\ Len(answers_given[s]) = Len(scores[s])
               /\ Len(scores[s]) = Len(evaluations[s])

(* C26: a process_answer call that succeeds has made exactly one           *)
(* evaluation call, for the question issued last and the answer it just    *)
(* stored, and then at most one question-generation call, made only after  *)
(* the evaluation and its score are recorded, and none when it began at    *)
(* question number total_questions.                                        *)
C26_OneEvaluationThenAtMostOneQuestion ==
    [][\A c \in Clients, s \in Sessions :
          sid[c] = s =>
              /\ (pc'[c] = "pa_evaluate" /\ pc[c] # "pa_evaluate") =>
                     /\ pc[c] = "ready"
                     /\ current_question'[c] = Len(questions_asked[s])
                     /\ Len(answers_given'[s]) = Len(answers_given[s]) + 1
              /\ (pc'[c] = "pa_generate" /\ pc[c] # "pa_generate") =>
                     /\ pc[c] = "pa_evaluate"
                     /\ Len(evaluations'[s]) = Len(evaluations[s]) + 1
                     /\ Len(scores'[s]) = Len(scores[s]) + 1
                     /\ current_question[c] < total_questions
              /\ (pc'[c] = "fr_feedback" /\ pc[c] # "fr_feedback"
                  /\ op[c] \in {"submit", "ws"}) =>
                     /\ pc[c] = "pa_evaluate"
                     /\ current_question[c] = total_questions
              /\ (Completes(c) /\ op[c] \in {"submit", "ws"}
                  /\ response'.status \in Success) =>
                     pc[c] = IF response'.status = "next_question"
                             THEN "pa_generate" ELSE "fr_feedback"]_vars

C26_Witness ==
    \E c \in Clients, s \in Sessions :
        /\ sid[c] = s
        /\ pc[c] = "pa_generate"
        /\ eval_qnum[s] = <<1, 2>>
        /\ Len(questions_asked[s]) = 2

(* C27: once a session has ended, no call on it (first question, answer,   *)
(* final report) changes its questions, answers, scores, evaluations or    *)
(* current question number.                                                *)
C27_CompletedIsTerminal ==
    [][\A s \in Sessions :
          interview_ended[s] =>
              /\ questions_asked'[s] = questions_asked[s]
              /\ answers_given'[s] = answers_given[s]
              /\ scores'[s] = scores[s]
              /\ evaluations'[s] = evaluations[s]
              /\ current_question_number'[s] = current_question_number[s]
              /\ interview_ended'[s]]_vars

(* C28: a report that was returned never changes.  When it is returned it  *)
(* is as it was built (the sinks have not touched it: the timestamp is the *)
(* one set by the build), its session has ended, and the report its holder *)
(* reads, individual_scores being the session's own list, is the report    *)
(* returned; and no step on a session that has ended changes its scores or *)
(* takes the end back, so what the holder reads stays the same for good.   *)
C28_ReturnedReportNeverChanges ==
    /\ [](response.report # NoReport =>
             /\ HeldReport(response.report) = response.report
             /\ response.report.timestamp = "built"
             /\ interview_ended[response.sid])
    /\ [][\A s \in Sessions :
              interview_ended[s] =>
                  /\ scores'[s] = scores[s]
                  /\ interview_ended'[s]]_vars

C28_Witness ==
    /\ response.report # NoReport
    /\ data_storage = "works"
    /\ google_sheets = "works"
    /\ response.status = "interview_complete"
    /\ \E c \in Clients :
           /\ pc[c] = "fr_feedback"
           /\ op[c] = "end"
           /\ sid[c] = response.sid

(* C29: with end_interview never called, a session ends on the call that   *)
(* records its total_questions-th score, never with fewer; it never holds  *)
(* more than total_questions questions; and a started session to which     *)
(* answers keep being submitted does end, unless one of its process_answer *)
(* calls fails.                                                            *)
C29_CompletesOnLastQuestion ==
    /\ [](\A s \in Sessions :
            /\ interview_ended[s] <=> Len(scores[s]) = total_questions
            /\ Len(scores[s]) <= total_questions
            /\ Len(questions_asked[s]) <= total_questions
            /\ AfterSubmit(s) =>
                   (response.status = "interview_complete" <=>
                        Len(scores[s]) = total_questions))
    /\ \A s \in Sessions :
           interview_started[s] ~> (interview_ended[s] \/ ~all_ok[s])

C29_Witness ==
    \E s \in Sessions :
        /\ AfterSubmit(s)
        /\ all_ok[s]
        /\ interview_ended[s]
        /\ Len(answers_given[s]) = total_questions
        /\ Len(questions_asked[s]) = total_questions

(* C30: entry i of the report pairs question i with the answer submitted   *)
(* to it and with the score computed for that answer.  Entry i holds       *)
(* answers_given[i] and scores[i]; the call that completes the interview   *)
(* stored its answer last in answers_given and recorded its score last in  *)
(* scores, so the last entry of its report pairs that score with that      *)
(* answer only if answers_given is as long as the report.                  *)
C30_EntriesPairQuestionAnswerScore ==
    response.status = "interview_complete" =>
        /\ Len(response.report.questions_and_answers) = Len(scores[response.sid])
        /\ Len(response.report.questions_and_answers) =
               Len(answers_given[response.sid])

(* A final-report call on s would get through if the evaluator answers:    *)
(* nothing raises before the final-feedback call or while the report is    *)
(* put together.                                                           *)
CanReport(s) ==
    /\ ReportPrelude(questions_asked[s], answers_given[s], scores[s]) = ""
    /\ Indexable(questions_asked[s], answers_given[s], scores[s], evaluations[s])

(* C31: a session that is marked ended while no report of it has been      *)
(* produced is still registered and a further end_interview call on it can *)
(* produce the report.                                                     *)
C31_EndedSessionCanStillReport ==
    \A s \in Sessions :
        (interview_ended[s] /\ Quiet(s) /\ save_calls[s] = 0) =>
            /\ s \in interview_sessions
            /\ CanReport(s)

IsPrefix(seq, longer) ==
    /\ Len(seq) <= Len(longer)
    /\ \A i \in 1..Len(seq) : longer[i] = seq[i]

(* C33: in every step current_question_number does not decrease, and       *)
(* questions_asked, answers_given, scores and evaluations only grow at the *)
(* end.                                                                    *)
C33_ProgressIsMonotone ==
    [][\A s \in Sessions :
          /\ current_question_number'[s] >= current_question_number[s]
          /\ IsPrefix(questions_asked[s], questions_asked'[s])
          /\ IsPrefix(answers_given[s], answers_given'[s])
          /\ IsPrefix(scores[s], scores'[s])
          /\ IsPrefix(evaluations[s], evaluations'[s])]_vars

====
